---------------------------- MODULE Spec2Model ----------------------------
(***************************************************************************)
(* RustFileFinder (src/main.rs): the parallel search run of run_search and *)
(* the per-file analysis of analyze_file.                                  *)
(*                                                                         *)
(* A string is a sequence of characters; a character is a one-token TLA+   *)
(* string.  "xFF" and "xFE" stand for two bytes of a Unix file name that   *)
(* are not valid UTF-8, and "uFFFD" for U+FFFD REPLACEMENT CHARACTER, which *)
(* to_string_lossy puts in their place.                                    *)
(*                                                                         *)
(* The parallel iterator of rayon is modelled by its tasks: a candidate is *)
(* pending, in flight on one of NumWorkers workers, or done.  Which worker *)
(* runs a task is not observable by the program and is not recorded.       *)
(***************************************************************************)
EXTENDS Naturals, Sequences, FiniteSets, TLC

\* ------------------------------------------------------------- bounds
\* Workers of the pool (rayon's default is one per core).
NumWorkers == 2
\* Regular files under the base directory.
MaxFiles == 2
\* The byte cap --max-bytes of the run (scaled down from 2,000,000).
MaxBytes == 1
\* The largest --limit tried.
MaxLimit == 1
\* Entries under the base directory in the walk taken entry by entry.
MaxEntries == 3
\* snippet_around_match: the context radius and the character cap of the
\* calls (40 and 120 in analyze_file, scaled down), and the longest text,
\* in characters.
Context == 1
MaxChars == 3
MaxTextChars == 5

\* ------------------------------------------------------------- values
\* Option<T>: None is the empty sequence, Some(x) the sequence of x alone.
NONE == <<>>
Some(x) == <<x>>
Val(o) == o[1]

\* ------------------------------------------------------------ strings
InvalidBytes == {"xFF", "xFE"}

\* The byte that decides the order of two characters in str::cmp: the
\* character's own code for ASCII, the first byte of its UTF-8 encoding
\* (0xEF) for U+FFFD.
CharCode(c) ==
  CASE c = "." -> 46
    [] c = "/" -> 47
    [] c = "A" -> 65
    [] c = "D" -> 68
    [] c = "F" -> 70
    [] c = "P" -> 80
    [] c = "T" -> 84
    [] c = "X" -> 88
    [] c = "a" -> 97
    [] c = "b" -> 98
    [] c = "d" -> 100
    [] c = "f" -> 102
    [] c = "i" -> 105
    [] c = "n" -> 110
    [] c = "p" -> 112
    [] c = "t" -> 116
    [] c = "x" -> 120
    [] c = "uFFFD" -> 239
    [] c = "xFE" -> 254
    [] c = "xFF" -> 255

\* char::to_lowercase on the characters used here
LowerChar(c) ==
  CASE c = "A" -> "a"
    [] c = "D" -> "d"
    [] c = "F" -> "f"
    [] c = "P" -> "p"
    [] c = "T" -> "t"
    [] c = "X" -> "x"
    [] OTHER -> c

\* str::to_lowercase (also eq_ignore_ascii_case's folding, on ASCII)
to_lowercase(s) == [i \in 1..Len(s) |-> LowerChar(s[i])]

\* OsStr::to_string_lossy: every invalid byte becomes U+FFFD
to_string_lossy(s) ==
  [i \in 1..Len(s) |-> IF s[i] \in InvalidBytes THEN "uFFFD" ELSE s[i]]

\* OsStr::to_str: None unless the whole string is valid UTF-8
to_str(s) ==
  IF \E i \in 1..Len(s) : s[i] \in InvalidBytes THEN NONE ELSE Some(s)

\* str::contains with a string pattern
contains(s, q) ==
  \E i \in 0..Len(s) : i + Len(q) <= Len(s) /\ SubSeq(s, i + 1, i + Len(q)) = q

\* str::cmp, as "a <= b": byte-wise lexicographic order
StrLeq(a, b) ==
  \/ \E k \in 1..Len(a) :
        /\ k <= Len(b)
        /\ \A j \in 1..(k - 1) : a[j] = b[j]
        /\ CharCode(a[k]) < CharCode(b[k])
  \/ /\ Len(a) <= Len(b)
     /\ \A j \in 1..Len(a) : a[j] = b[j]

StrLess(a, b) == StrLeq(a, b) /\ a # b

\* ---------------------------------------------------------- the paths
\* --dir, the base directory
Dir == <<".">>

\* The regular files that may lie under the base directory, by file name.
Universe ==
  { <<"a", ".", "t", "x", "t">>,
    <<"A", ".", "P", "D", "F">>,
    <<"b", ".", "p", "d", "f">>,
    <<"xFF", ".", "b", "i", "n">>,
    <<"xFE", ".", "b", "i", "n">> }

\* The path WalkDir yields for a file of the base directory.
PathOf(f) == Dir \o <<"/">> \o f

\* Path::file_name of PathOf(f)
file_name(f) == f

\* Positions of the dots of a file name
Dots(n) == {i \in 1..Len(n) : n[i] = "."}

Max(S) == CHOOSE x \in S : \A y \in S : y <= x

Min2(a, b) == IF a <= b THEN a ELSE b

\* Path::extension: the part after the last dot, None when the name has no
\* dot or only a leading one.
extension(f) ==
  LET n == file_name(f)
      d == Dots(n)
  IN  IF d = {} \/ Max(d) = 1 THEN NONE
      ELSE Some(SubSeq(n, Max(d) + 1, Len(n)))

\* path.extension().and_then(|e| e.to_str())
ExtStr(f) == IF extension(f) = NONE THEN NONE ELSE to_str(Val(extension(f)))

is_pdf(f) ==
  ExtStr(f) # NONE /\ to_lowercase(Val(ExtStr(f))) = <<"p", "d", "f">>

\* The members of the recognized-text set that occur in Universe; the other
\* sixteen extensions of the source's list behave as "txt" does.
TextExts == { <<"t", "x", "t">> }

is_probably_text(f) ==
  ExtStr(f) # NONE /\ to_lowercase(Val(ExtStr(f))) \in TextExts

\* allowed_ext of run_search: the tokens of --ext, lower-cased, empty ones
\* dropped (the tokens are modelled already split and trimmed)
AllowedExt(ext) ==
  IF ext = NONE THEN NONE
  ELSE Some(SelectSeq([i \in 1..Len(Val(ext)) |-> to_lowercase(Val(ext)[i])],
                      LAMBDA x : x # <<>>))

ext_allowed(f, allowed) ==
  IF allowed = NONE THEN TRUE
  ELSE IF ExtStr(f) = NONE THEN FALSE
  ELSE \E i \in 1..Len(Val(allowed)) :
          Val(allowed)[i] = to_lowercase(Val(ExtStr(f)))


\* ------------------------------------------------------- pure helpers
CounterNames ==
  { "scanned_text", "scanned_pdf", "skipped_non_text", "skipped_too_large",
    "skipped_non_utf8", "skipped_unreadable_text", "skipped_unreadable_pdf" }

\* The seven AtomicUsize::new(0)
ZeroCounters == [k \in CounterNames |-> 0]

\* fetch_add(1, Relaxed) on each counter named in the sequence `names`
FetchAdd(c, names) ==
  [k \in CounterNames |->
     c[k] + Cardinality({i \in 1..Len(names) : names[i] = k})]

\* matched_name of analyze_file
MatchedName(f, name_query) ==
  IF name_query = NONE THEN FALSE
  ELSE contains(to_lowercase(to_string_lossy(file_name(f))),
                to_lowercase(Val(name_query)))

\* A MatchResult.  The snippet is kept as present or absent.  `file` is not
\* a field of the program's record: it names the candidate the record was
\* made for, and no operation of the model reads it.
MatchResult(f, matched_name, matched_content, snippet) ==
  [ path |-> to_string_lossy(PathOf(f)),
    matched_name |-> matched_name,
    matched_content |-> matched_content,
    snippet |-> snippet,
    file |-> f ]

AnyMatchQueryOnly(name_query, matched_name, has_content, matched_content) ==
  name_query # NONE \/ (has_content /\ matched_content)

\* `any` at the end of analyze_file
AnyMatch(name_query, matched_name, has_content, matched_content) ==
  (name_query # NONE /\ matched_name) \/ (has_content /\ matched_content)

\* The tail of analyze_file: Some(MatchResult) or None
ResultOf(f, name_query, has_content, matched_content) ==
  IF AnyMatch(name_query, MatchedName(f, name_query), has_content,
              matched_content)
  THEN Some(MatchResult(f, MatchedName(f, name_query), matched_content,
                        IF matched_content THEN "some" ELSE "none"))
  ELSE NONE

SomeAlways(f, name_query) ==
  Some(MatchResult(f, MatchedName(f, name_query), FALSE, "none"))

some_if_name_only(f, name_query) ==
  IF name_query # NONE /\ MatchedName(f, name_query)
  THEN Some(MatchResult(f, MatchedName(f, name_query), FALSE, "none"))
  ELSE NONE

SkippedNonTextListWins(f, allowed, include_pdf) ==
  IF allowed = NONE
  THEN IF is_pdf(f) THEN ~include_pdf ELSE ~is_probably_text(f)
  ELSE FALSE

\* The classification at the head of the content branch of analyze_file:
\* TRUE when the file is counted skipped_non_text and returned name-only.
SkippedNonText(f, allowed, include_pdf) ==
  IF allowed = NONE
  THEN IF is_pdf(f) THEN ~include_pdf ELSE ~is_probably_text(f)
  ELSE is_pdf(f) /\ ~include_pdf

TooLargeAtCap(len, max_bytes) == len >= max_bytes

\* meta.len() > max_bytes
TooLarge(len, max_bytes) == len > max_bytes

\* f.take(max_bytes).read_to_end: the bytes a successful read delivers
BytesTaken(len, max_bytes) == Min2(len, max_bytes)

\* results.sort_by(|a, b| a.path.cmp(&b.path)): a stable sort.  The element
\* at index i goes behind those of smaller path and those of equal path
\* that stood before it.
SortByPath(s) ==
  LET Rank(i) == Cardinality({j \in 1..Len(s) :
                                \/ StrLess(s[j].path, s[i].path)
                                \/ s[j].path = s[i].path /\ j < i})
  IN  [p \in 1..Len(s) |-> s[CHOOSE i \in 1..Len(s) : Rank(i) = p - 1]]

TruncateOneMore(rs, limit) ==
  IF limit # NONE /\ Len(rs) > Val(limit)
  THEN SubSeq(rs, 1, Val(limit) + 1) ELSE rs

\* if let Some(limit) = args.limit { if len > limit { truncate(limit) } }
Truncate(rs, limit) ==
  IF limit # NONE /\ Len(rs) > Val(limit)
  THEN SubSeq(rs, 1, Val(limit)) ELSE rs

\* The orders in which the collected outcomes can reach the sort.
Enumerations(S) ==
  { s \in [1..Cardinality(S) -> S] :
      \A i, j \in 1..Cardinality(S) : i # j => s[i] # s[j] }

\* -------------------------------------------------------------- state
VARIABLES
  args,        \* SearchArgs after merge_search_args
  tree,        \* the regular files under args.dir
  env,         \* per file: the outcomes of its I/O when fixed beforehand
  phase,       \* "start", "walk", "scan", "done", "exited"
  files,       \* run_search's files
  st,          \* per candidate: "pending", a place in analyze_file, "done"
  counters,    \* the seven atomics
  results,     \* the outcomes collected by filter_map
  lock,        \* PDF_EXTRACT_LOCK: the candidate whose task holds it
  poisoned,    \* the mutex's poison flag
  silence,     \* SILENCE_PANICS
  extraction,  \* per candidate: pdf_text_result, "none" before the call
  flen,        \* per candidate: meta.len() once read
  bytesRead,   \* per candidate: bytes delivered by a successful read_to_end
  outcome,     \* per candidate: how its analysis ended (history)
  inc,         \* per candidate: the increments its task made (history)
  hook,        \* per candidate: what the panic hook did with it (history)
  results_print, \* the published ResultSet
  stats,       \* RunStats, NONE until built
  \* the walk of run_search, entry by entry
  base,        \* args.dir
  fs,          \* the entries under args.dir: path |-> kind
  todo,        \* the entries WalkDir has still to yield
  walk_files,  \* run_search's files while the iterator chain collects them
  \* one call of snippet_around_match
  text,        \* the text searched (the parameter s), as UTF-8 bytes
  m_start,     \* the match span, in bytes
  m_end,
  out          \* the returned String, NONE before the return

\* The variables of the walk and of the snippet call, which the actions of
\* the run leave alone: in the model of the run the walk is one step over
\* a flat directory and the snippet is present or absent.
unit == << base, fs, todo, walk_files, text, m_start, m_end, out >>

vars ==
  << args, tree, env, phase, files, st, counters, results, lock, poisoned,
     silence, extraction, flen, bytesRead, outcome, inc, hook,
     results_print, stats, unit >>

\* ------------------------------------------------------------- inputs
\* --name: absent, or "A." (which a.txt and A.PDF contain when case is
\* ignored)
NameQueries == { NONE, Some(<<"A", ".">>) }

\* --content: absent, a pattern that compiles, one that does not
Contents == { NONE, Some("valid"), Some("invalid") }

\* --ext, split at the commas
ExtLists ==
  { NONE, Some(<< <<"P", "D", "F">> >>), Some(<< <<"b", "i", "n">>, <<>> >>) }

Limits == {NONE} \cup {Some(n) : n \in 0..MaxLimit}

\* File lengths around the cap: one byte under, at the cap, one byte over
Lens == (MaxBytes - 1)..(MaxBytes + 1)

ArgsSet ==
  { a \in [ name : NameQueries, content : Contents, include_pdf : BOOLEAN,
            ext : ExtLists, max_bytes : {MaxBytes}, limit : Limits,
            verbose : BOOLEAN ] :
      \* main: at least --name or --content
      ~(a.name = NONE /\ a.content = NONE) }

Trees == { t \in SUBSET Universe : Cardinality(t) <= MaxFiles }

\* re.find and snippet_around_match: a match, none, or a panic
FindOutcomes == {"hit", "miss", "panic"}
ExtractionHangs == {}

\* extract_text: Ok(text), Err, or a panic
ExtractOutcomes == {"ok", "err", "panic"}
\* eprintln!: written, or a panic ("failed printing to stderr", as when
\* stderr is a pipe whose reader has gone)
LogOutcomes == {"ok", "panic"}

\* The outcomes the environment may give when the task of f asks for `field`:
\* any of S, unless the outcomes of f were fixed beforehand.
Draw(f, field, S) == IF env[f] = NONE THEN S ELSE {Val(env[f])[field]} \cap S

\* No walk entry by entry and no snippet call
UnitIdle ==
  /\ base = Dir
  /\ fs = <<>>
  /\ todo = <<>>
  /\ walk_files = {}
  /\ text = <<>>
  /\ m_start = 0
  /\ m_end = 0
  /\ out = NONE

Init ==
  /\ args \in ArgsSet
  /\ tree \in Trees
  /\ env = [f \in Universe |-> NONE]
  /\ phase = "start"
  /\ files = {}
  /\ st = [f \in Universe |-> "pending"]
  /\ counters = ZeroCounters
  /\ results = {}
  /\ lock = NONE
  /\ poisoned = FALSE
  /\ silence = FALSE
  /\ extraction = [f \in Universe |-> "none"]
  /\ flen = [f \in Universe |-> 0]
  /\ bytesRead = [f \in Universe |-> 0]
  /\ outcome = [f \in Universe |-> "none"]
  /\ inc = [f \in Universe |-> ZeroCounters]
  /\ hook = [f \in Universe |-> "none"]
  /\ results_print = <<>>
  /\ stats = NONE
  /\ UnitIdle

\* ------------------------------------------------------------ actions
ContentBranchAlways == TRUE

\* if let Some(re) = content_re
has_content == args.content # NONE
allowed_ext == AllowedExt(args.ext)

RegexNewAlwaysOk(pat) == "Ok"

\* Regex::new(pat)
RegexNew(pat) == IF pat = "invalid" THEN "Err" ELSE "Ok"

\* run_search, lines 186-191: Regex::new, exit(2) when it fails
Compile ==
  /\ phase = "start"
  /\ phase' = IF args.content # NONE /\ RegexNew(Val(args.content)) = "Err"
              THEN "exited" ELSE "walk"
  /\ UNCHANGED << unit, args, tree, env, files, st, counters, results, lock,
                  poisoned, silence, extraction, flen, bytesRead, outcome,
                  inc, hook, results_print, stats >>

\* run_search, lines 200-230: the walk, the extension filter, the counters
Enumerate ==
  /\ phase = "walk"
  /\ files' = {f \in tree : ext_allowed(f, allowed_ext)}
  /\ counters' = ZeroCounters
  /\ phase' = "scan"
  /\ UNCHANGED << unit, args, tree, env, st, results, lock, poisoned, silence,
                  extraction, flen, bytesRead, outcome, inc, hook,
                  results_print, stats >>

InFlight == {f \in files : st[f] \notin {"pending", "done"}}

\* par_iter: a worker of the pool takes a candidate
Dispatch(f) ==
  /\ phase = "scan"
  /\ f \in files
  /\ st[f] = "pending"
  /\ Cardinality(InFlight) < NumWorkers
  /\ st' = [st EXCEPT ![f] = "start"]
  /\ UNCHANGED << unit, args, tree, env, phase, files, counters, results, lock,
                  poisoned, silence, extraction, flen, bytesRead, outcome,
                  inc, hook, results_print, stats >>

\* The task of f ends: analyze_file returned `res` (or unwound to the
\* wrapper, which yields None), after the increments named in `adds`.
Ends(f, res, how, adds) ==
  /\ st' = [st EXCEPT ![f] = "done"]
  /\ results' = IF res = NONE THEN results ELSE results \cup {Val(res)}
  /\ outcome' = [outcome EXCEPT ![f] = how]
  /\ counters' = FetchAdd(counters, adds)
  /\ inc' = [inc EXCEPT ![f] = FetchAdd(@, adds)]

\* The task of f goes on to `place`, after the increments named in `adds`.
GoesOn(f, place, adds) ==
  /\ st' = [st EXCEPT ![f] = place]
  /\ counters' = FetchAdd(counters, adds)
  /\ inc' = [inc EXCEPT ![f] = FetchAdd(@, adds)]
  /\ UNCHANGED << results, outcome >>

\* The panic hook main installs (lines 140-145): the default hook reports
\* the panic unless SILENCE_PANICS is set at that moment.
PanicHook(flag) == IF flag THEN "silenced" ELSE "reported"

WrapperCounterTextOnly(f) == "skipped_unreadable_text"

\* The counter the isolation wrapper of run_search bumps on Err(_)
WrapperCounter(f) ==
  IF is_pdf(f) THEN "skipped_unreadable_pdf" ELSE "skipped_unreadable_text"

\* analyze_file, lines 332-362: the name match, then, with a content
\* pattern, the classification; without one, the tail (450-461).
AnalyzeStart(f) ==
  /\ phase = "scan"
  /\ st[f] = "start"
  /\ IF ~has_content
     THEN Ends(f, ResultOf(f, args.name, FALSE, FALSE), "name_only", <<>>)
     ELSE IF SkippedNonText(f, allowed_ext, args.include_pdf)
     THEN Ends(f, some_if_name_only(f, args.name), "non_text",
               <<"skipped_non_text">>)
     ELSE IF is_pdf(f)
     THEN GoesOn(f, "lock", <<"scanned_pdf">>)
     ELSE GoesOn(f, "stat", <<>>)
  /\ UNCHANGED << unit, args, tree, env, phase, files, lock, poisoned, silence,
                  extraction, flen, bytesRead, hook, results_print, stats >>

LockNeverWaits == TRUE

\* PDF_EXTRACT_LOCK.lock() returns only when no other task holds the mutex.
LockAvailable == lock = NONE

\* analyze_file, lines 364-372: the lock.  On a poisoned mutex lock() still
\* takes the mutex and returns Err with the guard inside, which is dropped
\* at the return.
AcquireLock(f) ==
  /\ phase = "scan"
  /\ st[f] = "lock"
  /\ LockAvailable
  /\ IF poisoned
     THEN /\ Ends(f, some_if_name_only(f, args.name), "lock_err",
                  <<"skipped_unreadable_pdf">>)
          /\ UNCHANGED lock
     ELSE /\ GoesOn(f, "locked", <<>>)
          /\ lock' = Some(f)
  /\ UNCHANGED << unit, args, tree, env, phase, files, poisoned, silence,
                  extraction, flen, bytesRead, hook, results_print, stats >>

\* analyze_file, line 374: SILENCE_PANICS.store(true)
SilenceOn(f) ==
  /\ phase = "scan"
  /\ st[f] = "locked"
  /\ silence' = TRUE
  /\ GoesOn(f, "extract", <<>>)
  /\ UNCHANGED << unit, args, tree, env, phase, files, lock, poisoned,
                  extraction, flen, bytesRead, hook, results_print, stats >>

\* analyze_file, lines 375-379: extract_text inside catch_unwind.  The call
\* returns Ok(text), returns Err, or panics; the panic is caught here.
Extract(f) ==
  /\ phase = "scan"
  /\ st[f] = "extract"
  /\ \E r \in Draw(f, "extract", ExtractOutcomes) :
        /\ extraction' = [extraction EXCEPT ![f] = r]
        /\ hook' = IF r = "panic" THEN [hook EXCEPT ![f] = PanicHook(silence)]
                                  ELSE hook
  /\ GoesOn(f, "extracted", <<>>)
  /\ UNCHANGED << unit, args, tree, env, phase, files, lock, poisoned, silence,
                  flen, bytesRead, results_print, stats >>

StoredAfterCallUnlessPanic(r) == r = "panic"

\* The value line 380 stores into SILENCE_PANICS once catch_unwind has
\* returned pdf_text_result r: false, whatever r is.
StoredAfterCall(r) == FALSE

\* analyze_file, line 380: SILENCE_PANICS.store(false)
SilenceOff(f) ==
  /\ phase = "scan"
  /\ st[f] = "extracted"
  /\ silence' = StoredAfterCall(extraction[f])
  /\ GoesOn(f, "pdf_match", <<>>)
  /\ UNCHANGED << unit, args, tree, env, phase, files, lock, poisoned,
                  extraction, flen, bytesRead, hook, results_print, stats >>

\* The poison flag after the guard of the mutex is dropped: set when the
\* drop happens while the thread unwinds from a panic.
PoisonOnDrop(was, panicking) == was \/ panicking

DropGuardUnlessPanicking(f, panicking) == IF panicking THEN Some(f) ELSE NONE

\* The holder of the mutex after the task of f has dropped the guard _lock,
\* at the return or while it unwinds: none.
DropGuard(f, panicking) == NONE

\* analyze_file, lines 382-400 and 450-461, with the guard _lock alive to
\* the end of the block: the failed extraction (counted, and logged when
\* verbose), or the search of the text.  A panic of eprintln!, re.find or
\* snippet_around_match unwinds through the guard to the wrapper of
\* run_search (lines 250-261).
PdfMatch(f) ==
  /\ phase = "scan"
  /\ st[f] = "pdf_match"
  /\ IF extraction[f] # "ok"
     THEN \E l \in Draw(f, "log", LogOutcomes) :
            IF args.verbose /\ l = "panic"
            THEN /\ Ends(f, NONE, "log_crash",
                         <<"skipped_unreadable_pdf", WrapperCounter(f)>>)
                 /\ hook' = [hook EXCEPT ![f] = PanicHook(silence)]
                 /\ poisoned' = PoisonOnDrop(poisoned, TRUE)
                 /\ lock' = DropGuard(f, TRUE)
            ELSE /\ Ends(f, some_if_name_only(f, args.name),
                         IF extraction[f] = "panic" THEN "extract_panic"
                                                    ELSE "extract_err",
                         <<"skipped_unreadable_pdf">>)
                 /\ UNCHANGED hook
                 /\ poisoned' = PoisonOnDrop(poisoned, FALSE)
                 /\ lock' = DropGuard(f, FALSE)
     ELSE \E m \in Draw(f, "find", FindOutcomes) :
            IF m = "panic"
            THEN /\ Ends(f, NONE, "crash", <<WrapperCounter(f)>>)
                 /\ hook' = [hook EXCEPT ![f] = PanicHook(silence)]
                 /\ poisoned' = PoisonOnDrop(poisoned, TRUE)
                 /\ lock' = DropGuard(f, TRUE)
            ELSE /\ Ends(f, ResultOf(f, args.name, TRUE, m = "hit"), m, <<>>)
                 /\ UNCHANGED hook
                 /\ poisoned' = PoisonOnDrop(poisoned, FALSE)
                 /\ lock' = DropGuard(f, FALSE)
  /\ UNCHANGED << unit, args, tree, env, phase, files, silence, extraction,
                  flen, bytesRead, results_print, stats >>

\* analyze_file, lines 402-427: metadata, the cap, the open, and the count
\* of the file as scanned.
TextStat(f) ==
  /\ phase = "scan"
  /\ st[f] = "stat"
  /\ \E meta_ok \in Draw(f, "meta_ok", BOOLEAN),
        len \in Draw(f, "len", Lens),
        open_ok \in Draw(f, "open_ok", BOOLEAN) :
        IF ~meta_ok
        THEN /\ Ends(f, some_if_name_only(f, args.name), "meta_err",
                     <<"skipped_unreadable_text">>)
             /\ UNCHANGED flen
        ELSE /\ flen' = [flen EXCEPT ![f] = len]
             /\ IF TooLarge(len, args.max_bytes)
                THEN Ends(f, some_if_name_only(f, args.name), "too_large",
                          <<"skipped_too_large">>)
                ELSE IF ~open_ok
                THEN Ends(f, some_if_name_only(f, args.name), "open_err",
                          <<"skipped_unreadable_text">>)
                ELSE GoesOn(f, "read", <<"scanned_text">>)
  /\ UNCHANGED << unit, args, tree, env, phase, files, lock, poisoned, silence,
                  extraction, bytesRead, hook, results_print, stats >>

\* analyze_file, lines 429-461: the bounded read, the decoding, the search.
\* bytesRead is the length of buf when read_to_end returned Ok; after an Err
\* buf is not looked at.  A panic of re.find or snippet_around_match unwinds
\* to the wrapper of run_search.
TextRead(f) ==
  /\ phase = "scan"
  /\ st[f] = "read"
  /\ \E read_ok \in Draw(f, "read_ok", BOOLEAN),
        utf8 \in Draw(f, "utf8", BOOLEAN),
        m \in Draw(f, "find", FindOutcomes) :
        IF ~read_ok
        THEN /\ UNCHANGED << bytesRead, hook >>
             /\ Ends(f, ResultOf(f, args.name, TRUE, FALSE), "read_err",
                     <<"skipped_unreadable_text">>)
        ELSE /\ bytesRead' = [bytesRead EXCEPT
                                ![f] = BytesTaken(flen[f], args.max_bytes)]
             /\ IF ~utf8
                THEN /\ Ends(f, ResultOf(f, args.name, TRUE, FALSE),
                             "non_utf8", <<"skipped_non_utf8">>)
                     /\ UNCHANGED hook
                ELSE IF m = "panic"
                THEN /\ Ends(f, NONE, "crash", <<WrapperCounter(f)>>)
                     /\ hook' = [hook EXCEPT ![f] = PanicHook(silence)]
                ELSE /\ Ends(f, ResultOf(f, args.name, TRUE, m = "hit"), m,
                             <<>>)
                     /\ UNCHANGED hook
  /\ UNCHANGED << unit, args, tree, env, phase, files, lock, poisoned, silence,
                  extraction, flen, results_print, stats >>

\* The RunStats snapshot of run_search, lines 280-292 (elapsed_ms left out)
RunStats(discovered, c, total, printed) ==
  [ files_discovered |-> discovered,
    files_scanned_text |-> c.scanned_text,
    files_scanned_pdf |-> c.scanned_pdf,
    files_skipped_non_text |-> c.skipped_non_text,
    files_skipped_too_large |-> c.skipped_too_large,
    files_skipped_non_utf8 |-> c.skipped_non_utf8,
    files_skipped_unreadable_text |-> c.skipped_unreadable_text,
    files_skipped_unreadable_pdf |-> c.skipped_unreadable_pdf,
    matches_total |-> total,
    matches_printed |-> printed ]

JoinedBeforeTheEnd == TRUE

\* collect() returns when every task has ended
AllJoined == \A f \in files : st[f] = "done"

\* run_search, lines 264-292: the collected outcomes, in the order collect
\* delivers them, are sorted and truncated, and the statistics are read.
Finalize ==
  /\ phase = "scan"
  /\ AllJoined
  /\ \E collected \in Enumerations(results) :
        LET sorted == SortByPath(collected)
            printed == Truncate(sorted, args.limit)
        IN  /\ results_print' = printed
            /\ stats' = Some(RunStats(Cardinality(files), counters,
                                      Len(sorted), Len(printed)))
  /\ phase' = "done"
  /\ UNCHANGED << unit, args, tree, env, files, st, counters, results, lock,
                  poisoned, silence, extraction, flen, bytesRead, outcome,
                  inc, hook >>

Step(f) ==
  \/ Dispatch(f)
  \/ AnalyzeStart(f)
  \/ AcquireLock(f)
  \/ SilenceOn(f)
  \/ Extract(f)
  \/ SilenceOff(f)
  \/ PdfMatch(f)
  \/ TextStat(f)
  \/ TextRead(f)

Next ==
  \/ Compile
  \/ Enumerate
  \/ \E f \in Universe : Step(f)
  \/ Finalize

Spec == Init /\ [][Next]_vars

\* ------------------------------------------------------------ claims
RunDone == phase = "done"

\* The records collected for candidate f
RecordsOf(f) == {r \in results : r.file = f}

\* Candidates whose analysis has ended
Ended == {f \in files : st[f] = "done"}

\* The file name of f, as the program sees it, contains q when case is
\* ignored.
NameContainsIgnoringCase(f, q) ==
  LET n == to_string_lossy(f)
  IN  \E i \in 0..Len(n) :
        /\ i + Len(q) <= Len(n)
        /\ \A k \in 1..Len(q) : LowerChar(n[i + k]) = LowerChar(q[k])

NameHit(f) == args.name # NONE /\ NameContainsIgnoringCase(f, Val(args.name))

\* f was evaluated by name only: one record without content match and
\* without snippet when the name query matches, no record otherwise.
NameOnly(f) ==
  IF NameHit(f)
  THEN /\ Cardinality(RecordsOf(f)) = 1
       /\ \A r \in RecordsOf(f) :
            r.matched_name /\ ~r.matched_content /\ r.snippet = "none"
  ELSE RecordsOf(f) = {}

StatsSum ==
  LET s == Val(stats)
  IN  s.files_scanned_text + s.files_scanned_pdf + s.files_skipped_non_text
        + s.files_skipped_too_large + s.files_skipped_non_utf8
        + s.files_skipped_unreadable_text + s.files_skipped_unreadable_pdf

\* C1: with a content query, at the end of the run the seven counters of
\* RunStats add up to files_discovered (every discovered file is counted in
\* exactly one class).
C1_SevenCountersPartition ==
  (RunDone /\ has_content) => StatsSum = Val(stats).files_discovered

\* C2, as claimed: a file whose analysis panicked (in the extraction call or
\* anywhere else) leaves no match record and one increment of the
\* unreadable counter of its kind.
WrapperCaught == {"crash", "log_crash"}

Panicked == {f \in Ended : outcome[f] \in WrapperCaught \cup {"extract_panic"}}

C2_CrashedFileLeavesNoRecord ==
  \A f \in Panicked : RecordsOf(f) = {} /\ inc[f][WrapperCounter(f)] >= 1

\* The steps of a task between taking the lock and dropping it
HolderStep(g) == SilenceOn(g) \/ Extract(g) \/ SilenceOff(g) \/ PdfMatch(g)

\* C2, amended: a panic never aborts the run (a task that waits for the
\* lock can take it or its holder can take a step, so no panic leaves the
\* lock held; once all tasks ended the statistics can be built; the only
\* exit is the one before the walk; at the end every candidate was
\* analysed and RunStats exists); a file whose panic
\* reached the wrapper of run_search leaves no record and is counted by the
\* wrapper as skipped_unreadable_pdf (extension pdf) or
\* skipped_unreadable_text, never as the other; a file whose only panic was
\* inside the extraction call, caught in analyze_file, counts once as
\* skipped_unreadable_pdf and is evaluated by name only.
C2_CrashIsContained ==
  /\ \A f \in files :
       st[f] = "lock" =>
         \/ ENABLED AcquireLock(f)
         \/ \E g \in files : lock = Some(g) /\ ENABLED HolderStep(g)
  /\ (phase = "scan" /\ AllJoined) => ENABLED Finalize
  /\ phase = "exited" => (args.content = Some("invalid") /\ files = {})
  /\ RunDone => (stats # NONE /\ Ended = files
                   /\ \A f \in files : outcome[f] # "none")
  /\ \A f \in Ended :
       /\ outcome[f] \in WrapperCaught =>
            /\ RecordsOf(f) = {}
            /\ inc[f][IF is_pdf(f) THEN "skipped_unreadable_pdf"
                                   ELSE "skipped_unreadable_text"]
                 = IF outcome[f] = "log_crash" THEN 2 ELSE 1
            /\ inc[f][IF is_pdf(f) THEN "skipped_unreadable_text"
                                   ELSE "skipped_unreadable_pdf"] = 0
       /\ outcome[f] = "extract_panic" =>
            /\ is_pdf(f)
            /\ inc[f].skipped_unreadable_pdf = 1
            /\ inc[f].skipped_unreadable_text = 0
            /\ NameOnly(f)

\* C2 witness: the run ended, one PDF panicked after its extraction and
\* another inside it, and the second left its name-only record.
C2_Witness ==
  /\ RunDone
  /\ \E f, g \in files :
       /\ outcome[f] = "crash" /\ is_pdf(f)
       /\ outcome[g] = "extract_panic" /\ RecordsOf(g) # {}

\* The places of analyze_file at which the task holds the guard _lock
LockHeldPlaces == {"locked", "extract", "extracted", "pdf_match"}
TextPlaces == {"stat", "read"}

\* C3: at most one task is inside the extraction call (indeed at most one
\* holds the lock), and a task on the text path can always take its next
\* step, whoever holds the lock.
C3_OneExtractionAtATime ==
  /\ Cardinality({f \in files : st[f] = "extract"}) <= 1
  /\ Cardinality({f \in files : st[f] \in LockHeldPlaces}) <= 1
  /\ \A f \in files : st[f] \in LockHeldPlaces => lock = Some(f)
  /\ \A f \in files : st[f] = "stat" => ENABLED TextStat(f)
  /\ \A f \in files : st[f] = "read" => ENABLED TextRead(f)

\* C3 witness: one task is inside the extraction call while another waits
\* for the lock.
C3_Witness ==
  \E f, g \in files : st[f] = "extract" /\ st[g] = "lock"

\* C4: the published ResultSet is in strictly ascending path order, so no
\* two records share a path.
C4_StrictlyAscendingPaths ==
  RunDone =>
    \A i, j \in 1..Len(results_print) :
      i < j => StrLess(results_print[i].path, results_print[j].path)

\* C5: matches_total counts the records before truncation; the published
\* records are distinct collected records in path order, none of them after
\* an unpublished one; matches_printed is min(matches_total, L) under a
\* limit L and matches_total without one.
C5_LimitKeepsSmallestPaths ==
  RunDone =>
    LET s == Val(stats)
        n == Len(results_print)
    IN  /\ s.matches_total = Cardinality(results)
        /\ s.matches_printed = n
        /\ n = IF args.limit = NONE THEN s.matches_total
               ELSE Min2(s.matches_total, Val(args.limit))
        /\ \A i \in 1..n : results_print[i] \in results
        /\ \A i, j \in 1..n : i # j => results_print[i] # results_print[j]
        /\ \A i, j \in 1..n :
             i < j => StrLeq(results_print[i].path, results_print[j].path)
        /\ \A r \in results :
             (\A i \in 1..n : results_print[i] # r) =>
               \A i \in 1..n : StrLeq(results_print[i].path, r.path)

\* C5 witness: two records, a limit of one, the record of the smaller path
\* published.
C5_Witness ==
  /\ RunDone
  /\ args.limit = Some(1)
  /\ Val(stats).matches_total = 2
  /\ Len(results_print) = 1
  /\ \E r \in results : StrLess(results_print[1].path, r.path)

\* The ends of an analysis that count the file unreadable or non-UTF-8
DegradedInFile ==
  { "meta_err", "open_err", "read_err", "lock_err", "extract_err",
    "extract_panic", "non_utf8" }

\* C6, as claimed: every unreadable or non-UTF-8 end, the panic that
\* reaches the wrapper included, is evaluated by name only.
C6_EveryFailureIsNameOnly ==
  \A f \in Ended :
    outcome[f] \in DegradedInFile \cup WrapperCaught => NameOnly(f)

\* C6, amended: every unreadable or non-UTF-8 end that analyze_file handles
\* itself (metadata, open or read failure, failed lock, failed or panicking
\* extraction, invalid UTF-8) is evaluated by name only; a panic that
\* reaches the wrapper of run_search leaves no record, name match or not.
C6_HandledFailureIsNameOnly ==
  \A f \in Ended :
    /\ outcome[f] \in DegradedInFile => NameOnly(f)
    /\ outcome[f] \in WrapperCaught => RecordsOf(f) = {}

\* C6 witness: a PDF whose extraction failed and a text file that is not
\* UTF-8, both with a name-only record.
C6_Witness ==
  \E f, g \in Ended :
    /\ outcome[f] = "extract_err" /\ RecordsOf(f) # {}
    /\ outcome[g] = "non_utf8" /\ RecordsOf(g) # {}

\* Eligibility for content scanning, as the claim states it
Eligible(f) ==
  \/ is_pdf(f) /\ args.include_pdf
  \/ ~is_pdf(f) /\ (args.ext # NONE \/ is_probably_text(f))

\* Candidates that are past the classification
Classified == {f \in files : st[f] \notin {"pending", "start"}}

\* C7: with a content query a classified file is skipped as non-text
\* exactly when it is not eligible; a skipped file made the one increment
\* of skipped_non_text and no other, was never stat'ed, read, locked or
\* extracted, and was evaluated by name only.
C7_IneligibleIsSkippedNonText ==
  has_content =>
    \A f \in Classified :
      /\ Eligible(f) <=> outcome[f] # "non_text"
      /\ Eligible(f) => inc[f].skipped_non_text = 0
      /\ ~Eligible(f) =>
           /\ st[f] = "done"
           /\ inc[f] = FetchAdd(ZeroCounters, <<"skipped_non_text">>)
           /\ extraction[f] = "none"
           /\ bytesRead[f] = 0
           /\ lock # Some(f)
           /\ NameOnly(f)

\* C7 witness: the allow-list holds "pdf", PDF inclusion is off, and a PDF
\* was skipped as non-text.
C7_Witness ==
  /\ has_content
  /\ ~args.include_pdf
  /\ allowed_ext = Some(<< <<"p", "d", "f">> >>)
  /\ \E f \in Ended : is_pdf(f) /\ outcome[f] = "non_text"

\* C8: a text-eligible file whose length was read: over the cap, it is
\* counted skipped_too_large and nothing of it is read; at most the cap, it
\* is never counted too large, and the read that succeeds delivers all of
\* it.
C8_CapBoundary ==
  \A f \in Ended :
    outcome[f] \in {"too_large", "open_err", "read_err", "non_utf8", "hit",
                    "miss", "crash"} /\ ~is_pdf(f) =>
      /\ flen[f] > args.max_bytes =>
           /\ outcome[f] = "too_large"
           /\ inc[f] = FetchAdd(ZeroCounters, <<"skipped_too_large">>)
           /\ bytesRead[f] = 0
      /\ flen[f] <= args.max_bytes =>
           /\ outcome[f] # "too_large"
           /\ inc[f].skipped_too_large = 0
           /\ outcome[f] \in {"non_utf8", "hit", "miss", "crash"} =>
                bytesRead[f] = flen[f]

\* C8 witness: a file one byte over the cap was skipped unread and a file
\* exactly at the cap was read in full.
C8_Witness ==
  \E f, g \in Ended :
    /\ flen[f] = args.max_bytes + 1 /\ outcome[f] = "too_large"
    /\ bytesRead[f] = 0
    /\ flen[g] = args.max_bytes /\ outcome[g] = "hit"
    /\ bytesRead[g] = args.max_bytes /\ args.max_bytes > 0

\* C9: in every record, collected or published, matched_content holds only
\* with a content pattern that matched the file's text, matched_name only
\* with a name query the file name contains when case is ignored, and one
\* of the two holds.
RecordIsJustified(r) ==
  /\ r.matched_content => (has_content /\ outcome[r.file] = "hit")
  /\ r.matched_name => NameHit(r.file)
  /\ r.matched_content \/ r.matched_name

C9_FlagsAreJustified ==
  /\ \A r \in results : RecordIsJustified(r)
  /\ \A i \in 1..Len(results_print) : RecordIsJustified(results_print[i])

\* C9 witness: a published record with both flags.
C9_Witness ==
  /\ RunDone
  /\ \E i \in 1..Len(results_print) :
       results_print[i].matched_content /\ results_print[i].matched_name

\* ---------------------------------------------- fixed file outcomes
\* The outcomes of one file's I/O, fixed before the run: all well and no
\* match, or that with one thing changed.
EnvBase ==
  [ meta_ok |-> TRUE, len |-> MaxBytes, open_ok |-> TRUE, read_ok |-> TRUE,
    utf8 |-> TRUE, find |-> "miss", extract |-> "ok", log |-> "ok" ]

EnvSet ==
  { EnvBase,
    [EnvBase EXCEPT !.find = "hit"],
    [EnvBase EXCEPT !.find = "panic"],
    [EnvBase EXCEPT !.extract = "err"],
    [EnvBase EXCEPT !.extract = "panic"],
    [EnvBase EXCEPT !.extract = "err", !.log = "panic"],
    [EnvBase EXCEPT !.meta_ok = FALSE],
    [EnvBase EXCEPT !.len = MaxBytes + 1],
    [EnvBase EXCEPT !.open_ok = FALSE],
    [EnvBase EXCEPT !.read_ok = FALSE],
    [EnvBase EXCEPT !.utf8 = FALSE] }

\* A run without --ext and --limit over files whose outcomes are fixed.
InitDet ==
  /\ args \in {a \in ArgsSet : a.ext = NONE /\ a.limit = NONE}
  /\ tree \in Trees
  /\ \E e \in [tree -> EnvSet] :
        env = [f \in Universe |-> IF f \in tree THEN Some(e[f]) ELSE NONE]
  /\ phase = "start"
  /\ files = {}
  /\ st = [f \in Universe |-> "pending"]
  /\ counters = ZeroCounters
  /\ results = {}
  /\ lock = NONE
  /\ poisoned = FALSE
  /\ silence = FALSE
  /\ extraction = [f \in Universe |-> "none"]
  /\ flen = [f \in Universe |-> 0]
  /\ bytesRead = [f \in Universe |-> 0]
  /\ outcome = [f \in Universe |-> "none"]
  /\ inc = [f \in Universe |-> ZeroCounters]
  /\ hook = [f \in Universe |-> "none"]
  /\ results_print = <<>>
  /\ stats = NONE
  /\ UnitIdle

SpecDet == InitDet /\ [][Next]_vars

\* What the analysis of f yields when no other file is analysed: the
\* outcome and the increments, from the fixed outcomes of f alone.
Alone(f) ==
  LET e == Val(env[f])
      nameOnly == some_if_name_only(f, args.name)
  IN  IF ~has_content
      THEN [res |-> ResultOf(f, args.name, FALSE, FALSE), adds |-> <<>>]
      ELSE IF SkippedNonText(f, allowed_ext, args.include_pdf)
      THEN [res |-> nameOnly, adds |-> <<"skipped_non_text">>]
      ELSE IF is_pdf(f)
      THEN IF e.extract # "ok"
           THEN IF args.verbose /\ e.log = "panic"
                THEN [res |-> NONE,
                      adds |-> <<"scanned_pdf", "skipped_unreadable_pdf",
                                 "skipped_unreadable_pdf">>]
                ELSE [res |-> nameOnly,
                      adds |-> <<"scanned_pdf", "skipped_unreadable_pdf">>]
           ELSE IF e.find = "panic"
           THEN [res |-> NONE,
                 adds |-> <<"scanned_pdf", "skipped_unreadable_pdf">>]
           ELSE [res |-> ResultOf(f, args.name, TRUE, e.find = "hit"),
                 adds |-> <<"scanned_pdf">>]
      ELSE IF ~e.meta_ok
      THEN [res |-> nameOnly, adds |-> <<"skipped_unreadable_text">>]
      ELSE IF e.len > args.max_bytes
      THEN [res |-> nameOnly, adds |-> <<"skipped_too_large">>]
      ELSE IF ~e.open_ok
      THEN [res |-> nameOnly, adds |-> <<"skipped_unreadable_text">>]
      ELSE IF ~e.read_ok
      THEN [res |-> nameOnly,
            adds |-> <<"scanned_text", "skipped_unreadable_text">>]
      ELSE IF ~e.utf8
      THEN [res |-> nameOnly, adds |-> <<"scanned_text", "skipped_non_utf8">>]
      ELSE IF e.find = "panic"
      THEN [res |-> NONE,
            adds |-> <<"scanned_text", "skipped_unreadable_text">>]
      ELSE [res |-> ResultOf(f, args.name, TRUE, e.find = "hit"),
            adds |-> <<"scanned_text">>]

AloneResults == {Val(Alone(f).res) : f \in {g \in files : Alone(g).res # NONE}}

AloneCounters ==
  [k \in CounterNames |->
     Cardinality({p \in files \X (1..3) :
                    /\ p[2] <= Len(Alone(p[1]).adds)
                    /\ Alone(p[1]).adds[p[2]] = k})]

\* C10: with the candidates and the outcomes of every file fixed, the
\* published records and the seven counters of RunStats are the same at the
\* end of every run: each file contributes what its analysis yields on its
\* own, whatever the other tasks did before or meanwhile.
C10_SameResultEveryInterleaving ==
  RunDone =>
    /\ {results_print[i] : i \in 1..Len(results_print)} = AloneResults
    /\ counters = AloneCounters
    /\ \A k \in CounterNames :
         AloneCounters[k] =
           CASE k = "scanned_text" -> Val(stats).files_scanned_text
             [] k = "scanned_pdf" -> Val(stats).files_scanned_pdf
             [] k = "skipped_non_text" -> Val(stats).files_skipped_non_text
             [] k = "skipped_too_large" -> Val(stats).files_skipped_too_large
             [] k = "skipped_non_utf8" -> Val(stats).files_skipped_non_utf8
             [] k = "skipped_unreadable_text" ->
                  Val(stats).files_skipped_unreadable_text
             [] k = "skipped_unreadable_pdf" ->
                  Val(stats).files_skipped_unreadable_pdf

\* The runs C10 fails on: a task found the mutex poisoned.
C10_OnlyPoisonDiffers ==
  (RunDone /\ \A f \in files : outcome[f] # "lock_err") =>
    C10_SameResultEveryInterleaving

\* ------------------------------------------------- the fatal exit
\* C11: a content pattern that does not compile ends the run at the
\* compilation: the run never gets to the walk, and in the exited state no
\* candidate was enumerated, dispatched or analysed, no counter was
\* incremented, no record was collected, neither the ResultSet nor RunStats
\* was built, and no step follows.  Nothing else stops a run: the exit is
\* taken only for such a pattern, and until the run is done some step of
\* it can be taken (the step of the main thread, or the next step of some
\* task that is not blocked).
\* A task blocks at two places only, before a worker takes it and at
\* lock(); anywhere else its next step is straight-line code.
CanStep(f) ==
  CASE st[f] = "pending" -> ENABLED Dispatch(f)
    [] st[f] = "lock" -> ENABLED AcquireLock(f)
    [] OTHER -> st[f] # "done"

C11_InvalidPatternStopsBeforeDispatch ==
  /\ args.content = Some("invalid") => phase \in {"start", "exited"}
  /\ phase = "exited" =>
       /\ args.content = Some("invalid")
       /\ files = {}
       /\ \A f \in Universe :
            st[f] = "pending" /\ outcome[f] = "none" /\ inc[f] = ZeroCounters
       /\ counters = ZeroCounters
       /\ results = {}
       /\ results_print = <<>>
       /\ stats = NONE
       /\ ~ENABLED Next
  /\ phase = "start" => ENABLED Compile
  /\ phase = "walk" => ENABLED Enumerate
  /\ phase = "scan" =>
       IF AllJoined THEN ENABLED Finalize ELSE \E f \in files : CanStep(f)

\* C11 witness: the run exited although the base directory holds files.
C11_Witness == phase = "exited" /\ tree # {}

\* ---------------------------------------------------------- liveness
\* The threads of the process are scheduled: while some step of the run can
\* be taken, one is taken in the end.  (Extract returning Ok, Err or a
\* panic is the supposition that every extraction call ends.)  The runs
\* are those with a name query and without --limit: the two decide which
\* records are made and published, and no step waits on either.
InitFair == Init /\ args.limit = NONE /\ args.name # NONE

FairSpec == InitFair /\ [][Next]_vars /\ WF_vars(Next)

\* The run has come to its end: RunStats is built and every candidate was
\* dispatched and analysed to its end, so none is left waiting at lock().
Completed ==
  /\ RunDone
  /\ stats # NONE
  /\ \A f \in files : st[f] = "done" /\ outcome[f] # "none"

\* C12: under FairSpec every run whose pattern compiles (or that has none)
\* is, from some moment on, completed for good: every candidate has been
\* analysed, any task that waited at lock() has got past it, and RunStats
\* is built.  A task that has ended stays ended, with its outcome and its
\* increments as they were, so each candidate is analysed once.
C12_RunCompletes ==
  /\ <>[](args.content # Some("invalid") => Completed)
  /\ [][\A f \in Universe :
          st[f] = "done" =>
            /\ st'[f] = "done"
            /\ outcome'[f] = outcome[f]
            /\ inc'[f] = inc[f]]_vars

\* C12 witness: a run with a content pattern ended after two PDFs had been
\* through the extraction.
C12_Witness ==
  /\ RunDone
  /\ has_content
  /\ \E f, g \in files :
       f # g /\ extraction[f] # "none" /\ extraction[g] # "none"

\* ------------------------------------------------------ name-only runs
\* C13: in a run without a content query no task increments a counter: the
\* seven counters stay 0 all through the run, and RunStats holds seven
\* zeros however many files were discovered.
C13_NameOnlyRunCountsNothing ==
  args.content = NONE =>
    /\ counters = ZeroCounters
    /\ \A f \in Universe : inc[f] = ZeroCounters
    /\ RunDone => StatsSum = 0

\* C13 witness: a name-only run over two files ended, with a record.
C13_Witness ==
  /\ RunDone
  /\ args.content = NONE
  /\ Val(stats).files_discovered = 2
  /\ results # {}

\* ------------------------------------------------ the suppression flag
\* Tasks between the store of true (line 374) and the store of false (line
\* 380): about to call extract_text, inside it, or just back from it.
InExtraction == {f \in files : st[f] \in {"extract", "extracted"}}

\* C14: SILENCE_PANICS is true exactly while some task is between the two
\* stores that bracket its extraction call, and that task holds the PDF
\* lock; so the flag is false whenever no extraction is in progress, after
\* an extraction that panicked as after any other, and at the end of the
\* run.
C14_FlagBracketsExtraction ==
  /\ silence <=> InExtraction # {}
  /\ \A f \in InExtraction : lock = Some(f)
  /\ RunDone => ~silence

\* C14 witness: an extraction has panicked, its task is past the store of
\* false, and the flag is false.
C14_Witness ==
  \E f \in files :
    extraction[f] = "panic" /\ st[f] = "pdf_match" /\ ~silence

\* ------------------------------------------- the counters of a crash
\* C15: a file whose analysis panicked, at whatever point, has changed the
\* seven counters by one increment only, that of the unreadable counter of
\* its kind; what its task had added before the panic is not applied.
C15_CrashedTaskAddsOnlyWrapperCount ==
  \A f \in Panicked : inc[f] = FetchAdd(ZeroCounters, <<WrapperCounter(f)>>)

\* ------------------------------------------------ the scanned counters
\* The text of f was read and decoded (whether or not the pattern matched
\* it, or the search of it panicked)
Decoded(f) == ~is_pdf(f) /\ outcome[f] \in {"hit", "miss", "crash"}

\* C16: a file is counted scanned_pdf exactly when its extraction returned
\* the text, and scanned_text exactly when its bytes were read and decoded
\* as UTF-8; a lock failure, a failed or panicking extraction, a failed
\* read and invalid UTF-8 leave the scanned counters alone.
C16_ScannedCountsSuccessesOnly ==
  \A f \in Ended :
    /\ inc[f].scanned_pdf = (IF extraction[f] = "ok" THEN 1 ELSE 0)
    /\ inc[f].scanned_text = (IF Decoded(f) THEN 1 ELSE 0)

\* ------------------------------------------------- crash isolation
\* Another candidate than g has panicked
OtherPanicked(g) == \E f \in Panicked : f # g

\* C17 (under SpecDet, the outcomes of every file fixed): a file analysed
\* in a run in which another file panicked ends as it does on its own: the
\* same record or none, the same increments, and never with a failed
\* lock().
C17_CrashLeavesOthersAlone ==
  \A g \in Ended :
    OtherPanicked(g) =>
      /\ RecordsOf(g) =
           (IF Alone(g).res = NONE THEN {} ELSE {Val(Alone(g).res)})
      /\ inc[g] = FetchAdd(ZeroCounters, Alone(g).adds)
      /\ outcome[g] # "lock_err"

\* Where C17 fails, the other file's panic unwound through the guard of the
\* mutex: a panic inside the extraction call, caught before the guard,
\* changes nothing for the others.
C17_OnlyPoisonReaches ==
  \A g \in Ended :
    (OtherPanicked(g) /\ ~poisoned) =>
      /\ RecordsOf(g) =
           (IF Alone(g).res = NONE THEN {} ELSE {Val(Alone(g).res)})
      /\ inc[g] = FetchAdd(ZeroCounters, Alone(g).adds)

\* ------------------------------------------------ release of the lock
\* C18: the PDF lock is held only by a task that is inside its PDF block:
\* once the analysis of a file has ended, by a return or by a panic inside
\* or after the extraction call, its task does not hold the lock; and the
\* lock is free when every task has ended and when the run is done.
C18_LockReleasedOnEveryExit ==
  /\ \A f \in Universe :
       lock = Some(f) => (f \in files /\ st[f] \in LockHeldPlaces)
  /\ \A f \in Ended : lock # Some(f)
  /\ (phase = "scan" /\ AllJoined) => lock = NONE
  /\ RunDone => lock = NONE

\* C18 witness: the run is done and the lock free after one PDF panicked
\* holding the lock and another found the mutex poisoned.
C18_Witness ==
  /\ RunDone
  /\ lock = NONE
  /\ \E f, g \in files : outcome[f] = "log_crash" /\ outcome[g] = "lock_err"

\* ------------------------------------------------------- the snapshot
\* The field of RunStats read from counter k
StatsField(k) ==
  CASE k = "scanned_text" -> Val(stats).files_scanned_text
    [] k = "scanned_pdf" -> Val(stats).files_scanned_pdf
    [] k = "skipped_non_text" -> Val(stats).files_skipped_non_text
    [] k = "skipped_too_large" -> Val(stats).files_skipped_too_large
    [] k = "skipped_non_utf8" -> Val(stats).files_skipped_non_utf8
    [] k = "skipped_unreadable_text" ->
         Val(stats).files_skipped_unreadable_text
    [] k = "skipped_unreadable_pdf" ->
         Val(stats).files_skipped_unreadable_pdf

\* The increments of counter k made by all tasks so far (a task makes at
\* most three on one counter)
Increments(k) ==
  Cardinality({p \in files \X (1..3) : p[2] <= inc[p[1]][k]})

\* Once RunStats is built every candidate's task has ended, each field of
\* RunStats is the number of increments made on its counter, matches_total
\* is the number of records collected and the published records are among
\* them; before that nothing is published.
Quiesced ==
  /\ \A f \in files : \A k \in CounterNames : inc[f][k] <= 3
  /\ stats = NONE => results_print = <<>>
  /\ stats # NONE =>
       /\ \A f \in files : st[f] = "done"
       /\ \A k \in CounterNames :
            StatsField(k) = Increments(k) /\ counters[k] = Increments(k)
       /\ Val(stats).matches_total = Cardinality(results)
       /\ \A i \in 1..Len(results_print) : results_print[i] \in results

\* C19: the sort, the truncation and the reading of the counters come when
\* every worker has finished (Quiesced, in every state), and no step after
\* them increments a counter or collects a record.
C19_SnapshotAfterJoin ==
  /\ []Quiesced
  /\ [][stats # NONE =>
          counters' = counters /\ inc' = inc /\ results' = results]_vars

\* C19 witness: RunStats was built after two tasks had made three
\* increments between them and left two records.
C19_Witness ==
  /\ stats # NONE
  /\ Cardinality(results) = 2
  /\ Increments("scanned_text") + Increments("skipped_non_utf8")
       + Increments("scanned_pdf") = 3

\* ------------------------------------------------ what the hook reports
\* C20: the panic of a task is kept from the default hook only when it
\* happens inside the task's own PDF extraction call; a panic that reaches
\* the wrapper of run_search (in the analysis of a text file, or of a PDF
\* after its extraction) is reported, whatever the other workers are doing.
C20_OnlyExtractionPanicIsSilenced ==
  \A f \in files :
    /\ outcome[f] \in WrapperCaught => hook[f] = "reported"
    /\ hook[f] = "silenced" => (is_pdf(f) /\ extraction[f] = "panic")

\* Where C20 fails: the panic of a PDF's task is always treated as claimed
\* (its task holds the lock, so no other task has the flag set); the panic
\* that is wrongly silenced is that of a file that is no PDF.
C20_PdfPanicsAreTreatedAsClaimed ==
  \A f \in files :
    is_pdf(f) =>
      /\ outcome[f] \in WrapperCaught => hook[f] = "reported"
      /\ (extraction[f] = "panic" /\ outcome[f] \notin WrapperCaught) =>
           hook[f] = "silenced"

\* ------------------------------------------------ snippet_around_match
\* A &str is its UTF-8 bytes.  The characters of the texts: "a" and the
\* newline (one byte each), a character of two bytes and one of three.
Utf8Chars ==
  { <<"a">>, <<"nl">>, <<"xC3", "xA9">>, <<"xE2", "x82", "xAC">> }

\* The bytes 10xxxxxx, which are never the first byte of a character
IsContinuation(b) == b \in {"xA9", "x82", "xAC"}

\* The bytes of a sequence of characters
RECURSIVE Encode(_)
Encode(cs) == IF cs = <<>> THEN <<>> ELSE Head(cs) \o Encode(Tail(cs))

Texts ==
  { Encode(cs) : cs \in UNION { [1..n -> Utf8Chars] : n \in 0..MaxTextChars } }

\* str::is_char_boundary
is_char_boundary(t, i) ==
  \/ i = 0
  \/ i = Len(t)
  \/ i < Len(t) /\ ~IsContinuation(t[i + 1])

\* The while loop of clamp_to_char_boundary
RECURSIVE StepBack(_, _)
StepBack(t, i) ==
  IF i > 0 /\ ~is_char_boundary(t, i) THEN StepBack(t, i - 1) ELSE i

ClampToLen(t, i) == IF i > Len(t) THEN Len(t) ELSE i

clamp_to_char_boundary(t, i) == StepBack(t, IF i > Len(t) THEN Len(t) ELSE i)

\* usize::saturating_sub
saturating_sub(a, b) == IF a >= b THEN a - b ELSE 0

\* str::replace('\n', " ")
replace_newline(b) == [i \in 1..Len(b) |-> IF b[i] = "nl" THEN " " ELSE b[i]]

\* chars().count()
chars_count(b) == Cardinality({i \in 1..Len(b) : ~IsContinuation(b[i])})

\* chars().take(n).collect(): the bytes of the first n characters
chars_take(b, n) ==
  LET upto(i) == Cardinality({j \in 1..i : ~IsContinuation(b[j])})
  IN  SubSeq(b, 1, Cardinality({i \in 1..Len(b) : upto(i) <= n}))

snippet_around_match(t, start_, end_, context, max_chars) ==
  LET start0 == saturating_sub(start_, context)
      end0 == Min2(end_ + context, Len(t))
      start == clamp_to_char_boundary(t, start0)
      end == clamp_to_char_boundary(t, end0)
      sliced == replace_newline(SubSeq(t, start + 1, end))
  IN  IF chars_count(sliced) > max_chars
      THEN chars_take(sliced, max_chars)
      ELSE sliced

\* The character boundaries of a text
Boundaries(t) == {i \in 0..Len(t) : is_char_boundary(t, i)}

\* The variables of the run, at rest
SomeArgs == CHOOSE a \in ArgsSet : TRUE

RunIdle ==
  /\ tree = {}
  /\ env = [f \in Universe |-> NONE]
  /\ phase = "start"
  /\ files = {}
  /\ st = [f \in Universe |-> "pending"]
  /\ counters = ZeroCounters
  /\ results = {}
  /\ lock = NONE
  /\ poisoned = FALSE
  /\ silence = FALSE
  /\ extraction = [f \in Universe |-> "none"]
  /\ flen = [f \in Universe |-> 0]
  /\ bytesRead = [f \in Universe |-> 0]
  /\ outcome = [f \in Universe |-> "none"]
  /\ inc = [f \in Universe |-> ZeroCounters]
  /\ hook = [f \in Universe |-> "none"]
  /\ results_print = <<>>
  /\ stats = NONE

\* A call with a valid text and a match span on character boundaries (the
\* span may be empty, as a regex match may be)
InitSnippet ==
  /\ RunIdle
  /\ args = SomeArgs
  /\ base = Dir
  /\ fs = <<>>
  /\ todo = <<>>
  /\ walk_files = {}
  /\ text \in Texts
  /\ m_start \in Boundaries(text)
  /\ m_end \in Boundaries(text)
  /\ m_start <= m_end
  /\ out = NONE

\* snippet_around_match(text, m.start(), m.end(), 40, 120), lines 399, 435
CallSnippet ==
  /\ out = NONE
  /\ out' = Some(snippet_around_match(text, m_start, m_end, Context, MaxChars))
  /\ UNCHANGED << args, tree, env, phase, files, st, counters, results, lock,
                  poisoned, silence, extraction, flen, bytesRead, outcome,
                  inc, hook, results_print, stats, base, fs, todo,
                  walk_files, text, m_start, m_end >>

SpecSnippet == InitSnippet /\ [][CallSnippet]_vars

\* The bytes a..b of the text with every newline turned into a space
Shown(a, b) ==
  [i \in 1..(b - a) |-> IF text[a + i] = "nl" THEN " " ELSE text[a + i]]

Characters(b) == Cardinality({i \in 1..Len(b) : ~IsContinuation(b[i])})

\* The window of the claim: Context bytes to either side of the match, cut
\* at the ends of the text
InWindow(i) == i + Context >= m_start /\ i <= m_end + Context /\ i <= Len(text)

\* C21, as claimed: the snippet is a stretch of the text between two
\* character boundaries that lie in the window, with newlines shown as
\* spaces; it holds no newline and at most MaxChars characters.
C21_SnippetLiesInWindow ==
  out # NONE =>
    /\ \E a, b \in Boundaries(text) :
         a <= b /\ InWindow(a) /\ InWindow(b) /\ Val(out) = Shown(a, b)
    /\ \A i \in 1..Len(Val(out)) : Val(out)[i] # "nl"
    /\ Characters(Val(out)) <= MaxChars

\* The last character boundary at or before the start of the window
WindowStart ==
  CHOOSE a \in Boundaries(text) :
    /\ a <= saturating_sub(m_start, Context)
    /\ \A c \in Boundaries(text) :
         c <= saturating_sub(m_start, Context) => c <= a

\* C21, amended: the snippet is a stretch of the text between two
\* character boundaries, with newlines shown as spaces; it holds no newline
\* and at most MaxChars characters.  It begins at the last boundary at or
\* before the start of the window, so up to three bytes before the window
\* when that start falls inside a character (the character is taken
\* whole), and it ends inside the window: at the last boundary of the
\* window, or earlier with MaxChars characters.
C21_SnippetIsWholeCharacters ==
  out # NONE =>
    /\ saturating_sub(m_start, Context) <= WindowStart + 3
    /\ \E b \in Boundaries(text) :
         /\ WindowStart <= b
         /\ InWindow(b)
         /\ Val(out) = Shown(WindowStart, b)
         /\ \/ Characters(Val(out)) = MaxChars
            \/ \A c \in Boundaries(text) : InWindow(c) => c <= b
    /\ \A i \in 1..Len(Val(out)) : Val(out)[i] # "nl"
    /\ Characters(Val(out)) <= MaxChars

\* C21 witness: the start of the window fell inside a character, a newline
\* was replaced and the snippet was cut to MaxChars characters.
C21_Witness ==
  /\ out # NONE
  /\ m_start >= Context
  /\ m_start - Context \notin Boundaries(text)
  /\ \E i \in 1..Len(Val(out)) : Val(out)[i] = " "
  /\ Characters(Val(out)) = MaxChars
  /\ \E c \in Boundaries(text) :
       InWindow(c) /\ Len(Val(out)) < c - WindowStart

\* ------------------------------------------------------------ the walk
\* A path is the sequence of its components, a component a string.
\* The names is_ignored_dir matches
IgnoredNames ==
  { <<".", "g", "i", "t">>,
    <<"t", "a", "r", "g", "e", "t">>,
    <<"n", "o", "d", "e", "_", "m", "o", "d", "u", "l", "e", "s">> }

\* Names of entries: one of the ignored names, a name without extension
\* and one with the extension PDF
WalkNames ==
  { <<"t", "a", "r", "g", "e", "t">>,
    <<"s", "r", "c">>,
    <<"A", ".", "P", "D", "F">> }

\* --dir: "." or a directory named target
Bases == { << <<".">> >>, << <<"t", "a", "r", "g", "e", "t">> >> }

\* Paths below the base directory, one or two components long
WalkPaths ==
  { <<n>> : n \in WalkNames } \cup { <<n, k>> : n, k \in WalkNames }

Kinds == {"file", "dir", "symlink"}

\* The trees below the base directory: at most MaxEntries entries, each a
\* regular file, a directory or a symbolic link, every entry inside a
\* directory.
FileSystems ==
  { t \in UNION { [d -> Kinds] :
                   d \in {e \in SUBSET WalkPaths :
                             Cardinality(e) <= MaxEntries} } :
      \A p \in DOMAIN t :
        Len(p) = 2 => (<<p[1]>> \in DOMAIN t /\ t[<<p[1]>>] = "dir") }

\* Path::file_name: the last component, None for "."
PathFileName(p) ==
  IF p = <<>> \/ p[Len(p)] = <<".">> THEN NONE ELSE Some(p[Len(p)])

is_ignored_dir(p) ==
  /\ PathFileName(p) # NONE
  /\ to_str(Val(PathFileName(p))) # NONE
  /\ Val(to_str(Val(PathFileName(p)))) \in IgnoredNames

\* The file type of the entry at p below the base directory (the base
\* itself is a directory); links are not followed.
KindOf(p) == IF p = <<>> THEN "dir" ELSE fs[p]

\* The entries of the directory at p
Children(p) ==
  {c \in DOMAIN fs : Len(c) = Len(p) + 1 /\ SubSeq(c, 1, Len(p)) = p}

\* read_dir gives the entries of a directory in an order of its own: one
\* order is taken.
RECURSIVE SeqOf(_)
SeqOf(S) ==
  IF S = {} THEN <<>>
  ELSE LET x == CHOOSE y \in S : TRUE IN <<x>> \o SeqOf(S \ {x})

InitWalk ==
  /\ RunIdle
  /\ \E e \in ExtLists : args = [SomeArgs EXCEPT !.ext = e]
  /\ base \in Bases
  /\ fs \in FileSystems
  /\ todo = << <<>> >>
  /\ walk_files = {}
  /\ text = <<>>
  /\ m_start = 0
  /\ m_end = 0
  /\ out = NONE

\* run_search, lines 200-208: the next entry of WalkDir goes through the
\* chain.  filter_entry drops an entry is_ignored_dir holds of, and does
\* not descend into it; a directory that passes is descended into; of the
\* entries that pass, the regular files that ext_allowed admits are
\* collected.
WalkEntry ==
  /\ todo # <<>>
  /\ LET p == Head(todo)
         path == base \o p
     IN  IF is_ignored_dir(path)
         THEN /\ todo' = Tail(todo)
              /\ UNCHANGED walk_files
         ELSE IF KindOf(p) = "dir"
         THEN /\ todo' = SeqOf(Children(p)) \o Tail(todo)
              /\ UNCHANGED walk_files
         ELSE /\ todo' = Tail(todo)
              /\ walk_files' =
                   IF KindOf(p) = "file" /\ ext_allowed(p[Len(p)], allowed_ext)
                   THEN walk_files \cup {path}
                   ELSE walk_files
  /\ UNCHANGED << args, tree, env, phase, files, st, counters, results, lock,
                  poisoned, silence, extraction, flen, bytesRead, outcome,
                  inc, hook, results_print, stats, base, fs, text, m_start,
                  m_end, out >>

SpecWalk == InitWalk /\ [][WalkEntry]_vars

WalkDone == todo = <<>>

\* The directories above the entry at p, the base directory first, as
\* paths
Above(p) == {base \o SubSeq(p, 1, k) : k \in 0..(Len(p) - 1)}

\* The directory at path d bears an ignored name
NamedIgnored(d) == d[Len(d)] \in IgnoredNames

\* The extension of the name n, lower-cased, is a lower-cased token of the
\* list
InList(n, list) ==
  /\ extension(n) # NONE
  /\ \E i \in 1..Len(list) :
       /\ Len(list[i]) = Len(Val(extension(n)))
       /\ list[i] # <<>>
       /\ \A k \in 1..Len(list[i]) :
            LowerChar(list[i][k]) = LowerChar(Val(extension(n))[k])

\* The regular files of the claim: below the base directory (every entry
\* lies in a directory, and a link has no entries), in no directory that
\* bears an ignored name, of an extension in the allow-list if there is
\* one; the file's own name does not count.
Wanted ==
  { base \o p : p \in { q \in DOMAIN fs :
      /\ fs[q] = "file"
      /\ \A d \in Above(q) : ~NamedIgnored(d)
      /\ args.ext # NONE => InList(q[Len(q)], Val(args.ext)) } }

\* C22: when the walk is over, the files collected are exactly the wanted
\* ones.
C22_WalkYieldsExactlyTheFiles == WalkDone => walk_files = Wanted

\* Where C22 fails: the files collected are the wanted ones but for those
\* that bear an ignored name themselves.
C22_OnlyOwnNameDiffers ==
  WalkDone => walk_files = {f \in Wanted : ~NamedIgnored(f)}

=============================================================================
